---- MODULE Spec2Model ----
(***************************************************************************)
(* Model of notebooks/grammaticalgender fr-de.ipynb: the cells of the      *)
(* notebook run top to bottom over a dictionary table.  Every table cell   *)
(* is a Python str (a sequence of one-character strings) or the missing    *)
(* value NaN.  A table is a sequence of rows; a row is a function from     *)
(* column names to cells.                                                  *)
(***************************************************************************)
EXTENDS Integers, Sequences, FiniteSets, TLC

VARIABLES pc, defr, nouns, nouns_gendered, cm, cm2, ratio, chi2_arg

vars == <<pc, defr, nouns, nouns_gendered, cm, cm2, ratio, chi2_arg>>

(* ---------------------------- bounds ----------------------------------- *)

\* Largest number of rows of the dictionary file.
MaxRecords == 3

\* Longest text of the exhaustive extraction specification.
MaxTextLen == 6

(* ---------------------------- cells ------------------------------------ *)

\* pandas' missing value; no text is equal to it.
NaN == <<"NaN">>

\* A name not bound yet (a cell that has not run).
Unset == <<>>

Noun == <<"n", "o", "u", "n">>

Verb == <<"v", "e", "r", "b">>

\* The character class [mfn] of the German pattern.
DeLetters == {"m", "f", "n"}

\* The German character class used for French too.
FrLettersWithN == {"m", "f", "n"}

\* The character class [mf] of the French pattern.
FrLetters == {"m", "f"}

\* labels = ['m', 'f', 'n'] and labels = ['m', 'f'].
Labels3 == << <<"m">>, <<"f">>, <<"n">> >>

Labels2 == << <<"m">>, <<"f">> >>

(* ------------------------ table helpers -------------------------------- *)

\* df[name] = value, for one row.
WithColumn(r, name, v) ==
  [c \in DOMAIN r \cup {name} |-> IF c = name THEN v ELSE r[c]]

\* df.drop(labels=[name], axis=1), for one row.
WithoutColumn(r, name) == [c \in DOMAIN r \ {name} |-> r[c]]

\* df[name].values
Column(t, name) == [k \in DOMAIN t |-> t[k][name]]

(* ------------------------- Extractor ----------------------------------- *)

\* re: the alternation \{[letters]\}|\{[letters].pl\} tried at position i,
\* first alternative first; '.' is any character but a line break.
\* The matched text, or <<>> when neither alternative matches at i.
MatchAt(s, i, letters) ==
  IF /\ i + 2 <= Len(s)
     /\ s[i] = "{"
     /\ s[i + 1] \in letters
     /\ s[i + 2] = "}"
  THEN SubSeq(s, i, i + 2)
  ELSE IF /\ i + 5 <= Len(s)
          /\ s[i] = "{"
          /\ s[i + 1] \in letters
          /\ s[i + 2] # "\n"
          /\ s[i + 3] = "p"
          /\ s[i + 4] = "l"
          /\ s[i + 5] = "}"
       THEN SubSeq(s, i, i + 5)
       ELSE <<>>

\* re.search: the match at the leftmost position that has one.
RECURSIVE Search(_, _, _)
Search(s, i, letters) ==
  IF i > Len(s) THEN NaN
  ELSE IF MatchAt(s, i, letters) # <<>> THEN MatchAt(s, i, letters)
       ELSE Search(s, i + 1, letters)

\* Series.str.extract(pattern) for one cell: NaN stays NaN, a text without
\* a match gives NaN, otherwise the first group of the first match.
StrExtract(s, letters) == IF s = NaN THEN NaN ELSE Search(s, 1, letters)

\* A wrong index: s[0].
GenderLetterFirst(s) == <<s[1]>>

\* A wrong index: s[2].
GenderLetterThird(s) == <<s[3]>>

\* lambda s: s[1]  (Python counts from 0).
GenderLetter(s) == <<s[2]>>

\* The .str accessor exists only on a column of object dtype: read_csv gives
\* a column without any text the dtype float64.
HasStrAccessor(t, name) == \E k \in DOMAIN t : t[k][name] # NaN

(* --------------------------- Filter ------------------------------------ *)

\* The comparison inverted.
IsNotNoun(r) == r.cat # Noun

\* defr.cat == 'noun'
IsNoun(r) == r.cat = Noun

(* --------------------------- dropna ------------------------------------ *)

\* dropna(axis=0): a row goes when any of its columns is missing.
RowHasNa(r) == \E c \in DOMAIN r : r[c] = NaN

RowIsComplete(r) == ~RowHasNa(r)

(* --------------------------- Grouper ----------------------------------- *)

\* Two values of the dict exchanged.
GrouperMapSwapped == [f |-> <<"f">>, m |-> <<"n">>, n |-> <<"m">>]

\* The dict without the merge of n into m.
GrouperMapUngrouped == [f |-> <<"f">>, m |-> <<"m">>, n |-> <<"n">>]

\* {'f': 'f', 'm': 'm', 'n': 'm'}
GrouperMap == [f |-> <<"f">>, m |-> <<"m">>, n |-> <<"m">>]

\* Series.map(dict) for one cell: a key the dict lacks gives NaN.
Grouper(x) ==
  IF x # NaN /\ Len(x) = 1 /\ x[1] \in DOMAIN GrouperMap
  THEN GrouperMap[x[1]]
  ELSE NaN

(* ------------------------ Cross-tabulator ------------------------------ *)

Zeros(n) == [i \in 1..n |-> [j \in 1..n |-> 0]]

\* label_to_ind: the index of a label, 0 when it is not a declared label.
IndexOf(labels, x) ==
  IF \E i \in DOMAIN labels : labels[i] = x
  THEN CHOOSE i \in DOMAIN labels : labels[i] = x
  ELSE 0

\* The pairs up to k accumulated into the matrix; a pair with a label
\* outside the declared labels is left out.
RECURSIVE Accumulate(_, _, _, _)
Accumulate(y_true, y_pred, labels, k) ==
  IF k = 0 THEN Zeros(Len(labels))
  ELSE LET m == Accumulate(y_true, y_pred, labels, k - 1)
           i == IndexOf(labels, y_true[k])
           j == IndexOf(labels, y_pred[k])
       IN  IF i = 0 \/ j = 0 THEN m
           ELSE [m EXCEPT ![i][j] = @ + 1]

\* "At least one label specified must be in y_true"
ConfusionMatrixRaises(y_true, labels) ==
  /\ Len(y_true) > 0
  /\ \A k \in DOMAIN y_true : IndexOf(labels, y_true[k]) = 0

\* The two label sequences exchanged.
ConfusionMatrixTransposed(y_true, y_pred, labels) ==
  Accumulate(y_pred, y_true, labels, Len(y_true))

\* sklearn.metrics.confusion_matrix(y_true, y_pred, labels=labels)
ConfusionMatrix(y_true, y_pred, labels) ==
  Accumulate(y_true, y_pred, labels, Len(y_true))

(* ------------------------ numpy on a matrix ---------------------------- *)

RECURSIVE SumSeq(_)
SumSeq(s) == IF s = <<>> THEN 0 ELSE Head(s) + SumSeq(Tail(s))

\* m.sum()
MatrixSum(m) == SumSeq([i \in DOMAIN m |-> SumSeq(m[i])])

\* m.diagonal().sum()
DiagonalSum(m) == SumSeq([i \in DOMAIN m |-> m[i][i]])

\* m[:, :2]
FirstTwoColumns(m) == [i \in DOMAIN m |-> SubSeq(m[i], 1, 2)]

\* a / b on numpy integers: the fraction <<a, b>>, and nan for 0 / 0.
Divide(a, b) == IF b = 0 THEN NaN ELSE <<a, b>>

\* chi2_contingency: "The internally computed table of expected
\* frequencies has a zero element": a row or a column that sums to 0.
HasZeroExpected(m) ==
  \/ \E i \in DOMAIN m : SumSeq(m[i]) = 0
  \/ \E j \in DOMAIN m[1] : SumSeq([i \in DOMAIN m |-> m[i][j]]) = 0

(* ------------------------- the dictionary ------------------------------ *)

\* German texts of the file: "Haus {n}", "{f}", "{m.pl}", the faulty "{pl}"
\* the notebook mentions, and an empty field.
DeTexts ==
  { <<"H", "{", "n", "}">>,
    <<"{", "f", "}">>,
    <<"{", "m", ".", "p", "l", "}">>,
    <<"{", "p", "l", "}">>,
    NaN }

\* French texts of the file: "{m}", "{f.pl}" and a tag French has not.
FrTexts ==
  { <<"{", "m", "}">>,
    <<"{", "f", ".", "p", "l", "}">>,
    <<"{", "n", "}">> }

Row(de, fr, cat, comment) ==
  [de |-> de, fr |-> fr, cat |-> cat, comment |-> comment]

\* The rows a file may hold: every pairing of the texts as a noun, and
\* rows of another category, without a category, and with a comment.
Records ==
  { Row(d, f, Noun, NaN) : d \in DeTexts, f \in FrTexts }
  \cup { Row(<<"{", "f", "}">>, <<"{", "m", "}">>, Verb, NaN),
         Row(<<"{", "f", "}">>, <<"{", "f", ".", "p", "l", "}">>, NaN, NaN),
         Row(<<"H", "{", "n", "}">>, <<"{", "m", "}">>, Noun, <<"c">>) }

\* The characters of the exhaustive texts: both braces, a letter of both
\* patterns, a letter of the German pattern only, and the plural letters.
TextChars == {"{", "}", "m", "n", "p", "l"}

(* --------------------------- the cells --------------------------------- *)

\* Cell 04272567: pd.read_csv(..., names=['de', 'fr', 'cat', 'comment']).
Loaded(table) ==
  /\ pc = "drop_comment"
  /\ defr = table
  /\ nouns = Unset
  /\ nouns_gendered = Unset
  /\ cm = Unset
  /\ cm2 = Unset
  /\ ratio = Unset
  /\ chi2_arg = Unset

\* The dictionary files of one to MaxRecords rows.
Init == \E n \in 1..MaxRecords : \E table \in [1..n -> Records] : Loaded(table)

\* A file of two noun rows over one text t: t as the German text beside a
\* French text that has a tag, and t as both texts.
InitExtract ==
  \E n \in 0..MaxTextLen : \E t \in [1..n -> TextChars] :
    Loaded(<< Row(t, <<"{", "m", "}">>, Noun, NaN), Row(t, t, Noun, NaN) >>)

\* The cell left out: the comment column stays in the table.
DropCommentSkipped ==
  /\ pc = "drop_comment"
  /\ pc' = "filter"
  /\ UNCHANGED <<defr, nouns, nouns_gendered, cm, cm2, ratio, chi2_arg>>

\* Cell 9c41c2ca: defr = defr.drop(labels=['comment'], axis=1)
DropComment ==
  /\ pc = "drop_comment"
  /\ defr' = [k \in DOMAIN defr |-> WithoutColumn(defr[k], "comment")]
  /\ pc' = "filter"
  /\ UNCHANGED <<nouns, nouns_gendered, cm, cm2, ratio, chi2_arg>>

\* Cell 13f72eac: nouns = defr[defr.cat == 'noun'].reset_index(drop=True)
Filter ==
  /\ pc = "filter"
  /\ nouns' = SelectSeq(defr, IsNoun)
  /\ pc' = "extract"
  /\ UNCHANGED <<defr, nouns_gendered, cm, cm2, ratio, chi2_arg>>

\* Cell 16389bce: the two str.extract lines; the cell stops with an
\* AttributeError when a column has no .str accessor.
Extract ==
  /\ pc = "extract"
  /\ IF HasStrAccessor(defr, "de") /\ HasStrAccessor(defr, "fr")
     THEN /\ nouns' =
               [k \in DOMAIN nouns |->
                  WithColumn(
                    WithColumn(nouns[k], "de_gender",
                               StrExtract(nouns[k].de, DeLetters)),
                    "fr_gender", StrExtract(nouns[k].fr, FrLetters))]
          /\ pc' = "dropna"
     ELSE /\ nouns' = nouns
          /\ pc' = "extract_error"
  /\ UNCHANGED <<defr, nouns_gendered, cm, cm2, ratio, chi2_arg>>

\* Cell d9541637: dropna, then both label columns mapped through s[1].
DropNa ==
  /\ pc = "dropna"
  /\ LET kept == SelectSeq(nouns, RowIsComplete)
     IN  nouns_gendered' =
           [k \in DOMAIN kept |->
              [kept[k] EXCEPT !.de_gender = GenderLetter(@),
                              !.fr_gender = GenderLetter(@)]]
  /\ pc' = "crosstab"
  /\ UNCHANGED <<defr, nouns, cm, cm2, ratio, chi2_arg>>

\* Cell 398e3e3d: cm = confusion_matrix(de_gender, fr_gender, ['m','f','n'])
CrossTab ==
  /\ pc = "crosstab"
  /\ LET y_true == Column(nouns_gendered, "de_gender")
         y_pred == Column(nouns_gendered, "fr_gender")
     IN  IF ConfusionMatrixRaises(y_true, Labels3)
         THEN cm' = cm /\ pc' = "crosstab_error"
         ELSE cm' = ConfusionMatrix(y_true, y_pred, Labels3) /\ pc' = "group"
  /\ UNCHANGED <<defr, nouns, nouns_gendered, cm2, ratio, chi2_arg>>

\* Cell 769ed6f2: nouns_gendered['de_gender_grouped'] = de_gender.map({...})
Group ==
  /\ pc = "group"
  /\ nouns_gendered' =
       [k \in DOMAIN nouns_gendered |->
          WithColumn(nouns_gendered[k], "de_gender_grouped",
                     Grouper(nouns_gendered[k].de_gender))]
  /\ pc' = "crosstab2"
  /\ UNCHANGED <<defr, nouns, cm, cm2, ratio, chi2_arg>>

\* Cell 61f0ece1: cm2 = confusion_matrix(de_gender_grouped, fr_gender, ['m','f'])
CrossTab2 ==
  /\ pc = "crosstab2"
  /\ LET y_true == Column(nouns_gendered, "de_gender_grouped")
         y_pred == Column(nouns_gendered, "fr_gender")
     IN  IF ConfusionMatrixRaises(y_true, Labels2)
         THEN cm2' = cm2 /\ pc' = "crosstab2_error"
         ELSE cm2' = ConfusionMatrix(y_true, y_pred, Labels2) /\ pc' = "ratio"
  /\ UNCHANGED <<defr, nouns, nouns_gendered, cm, ratio, chi2_arg>>

\* Cell 375f786b: cm2.diagonal().sum() / cm2.sum()
Ratio ==
  /\ pc = "ratio"
  /\ ratio' = Divide(DiagonalSum(cm2), MatrixSum(cm2))
  /\ pc' = "chi2"
  /\ UNCHANGED <<defr, nouns, nouns_gendered, cm, cm2, chi2_arg>>

\* Cell a1cc709b: chi2_contingency(cm[:,:2]), then chi2_contingency(cm2);
\* either call raises a ValueError on a zero expected frequency.
Chi2 ==
  /\ pc = "chi2"
  /\ chi2_arg' = FirstTwoColumns(cm)
  /\ pc' = IF HasZeroExpected(FirstTwoColumns(cm)) \/ HasZeroExpected(cm2)
           THEN "chi2_error"
           ELSE "done"
  /\ UNCHANGED <<defr, nouns, nouns_gendered, cm, cm2, ratio>>

Next ==
  \/ DropComment
  \/ Filter
  \/ Extract
  \/ DropNa
  \/ CrossTab
  \/ Group
  \/ CrossTab2
  \/ Ratio
  \/ Chi2

\* The notebook over the dictionary files of at most MaxRecords rows.
Spec == Init /\ [][Next]_vars

\* The cells up to the Extractor's last.
NextExtract ==
  \/ DropComment
  \/ Filter
  \/ Extract
  \/ DropNa

\* The Extractor over the files that hold every text of at most MaxTextLen
\* characters.
SpecExtract == InitExtract /\ [][NextExtract]_vars

\* The labels a table handed to the Grouper may hold: the German alphabet
\* and a label the mapping does not declare.
GrouperInputs == {"m", "f", "n", "u"}

GenderedRow(x, y) ==
  [de |-> <<"{", x, "}">>, fr |-> <<"{", y, "}">>, cat |-> Noun,
   de_gender |-> <<x>>, fr_gender |-> <<y>>]

\* The Grouper cell about to run on a table of gendered nouns.
InitGrouper ==
  \E n \in 0..MaxRecords :
  \E table \in [1..n -> { GenderedRow(x, y) : x \in GrouperInputs,
                                               y \in FrLetters }] :
    /\ pc = "group"
    /\ defr = Unset
    /\ nouns = Unset
    /\ nouns_gendered = table
    /\ cm = Unset
    /\ cm2 = Unset
    /\ ratio = Unset
    /\ chi2_arg = Unset

NextGrouper == Group

\* The Grouper as a function of its input table.
SpecGrouper == InitGrouper /\ [][NextGrouper]_vars

(* ===================== the claims, stated and checked ================== *)

\* The cells that have run, read off pc.
AfterChi2 == pc \in {"chi2_error", "done"}

AfterRatio == pc = "chi2" \/ AfterChi2

AfterCrossTab2 == pc = "ratio" \/ AfterRatio

AfterGroup == pc \in {"crosstab2", "crosstab2_error"} \/ AfterCrossTab2

AfterCrossTab == pc = "group" \/ AfterGroup

AfterDropNa == pc \in {"crosstab", "crosstab_error"} \/ AfterCrossTab

AfterExtract == pc = "dropna" \/ AfterDropNa

AfterFilter == pc \in {"extract", "extract_error"} \/ AfterExtract

\* The columns read from the file that every later table keeps.
Entry(r) == [de |-> r.de, fr |-> r.fr, cat |-> r.cat]

\* The j-th smallest member of a set of indices.
Nth(K, j) == CHOOSE k \in K : Cardinality({i \in K : i <= k}) = j

\* out holds exactly the rows of in at the indices K, in their order.
IsSubsequenceAt(out, in, K) ==
  /\ Len(out) = Cardinality(K)
  /\ \A j \in DOMAIN out : Entry(out[j]) = Entry(in[Nth(K, j)])

\* The pattern stated on its own: at position i an opening brace, a gender
\* letter, and then either the closing brace or one more character and
\* "pl}".
TagAt(s, i, letters) ==
  /\ i + 2 <= Len(s)
  /\ s[i] = "{"
  /\ s[i + 1] \in letters
  /\ \/ s[i + 2] = "}"
     \/ /\ i + 5 <= Len(s)
        /\ SubSeq(s, i + 3, i + 5) = <<"p", "l", "}">>

TagPositions(s, letters) ==
  IF s = NaN THEN {} ELSE {i \in 1..Len(s) : TagAt(s, i, letters)}

\* The gender letter of the leftmost tag.
FirstTagLetter(s, letters) == <<s[Nth(TagPositions(s, letters), 1) + 1]>>

BothLabels == {k \in DOMAIN nouns : nouns[k].de_gender # NaN
                                     /\ nouns[k].fr_gender # NaN}

\* C2: after the drop, nouns_gendered holds exactly the rows of nouns with a
\* German and a French label, in their order in nouns.
C2_RetainedIffBothLabels ==
  AfterDropNa => IsSubsequenceAt(nouns_gendered, nouns, BothLabels)

\* Three nouns, the middle one without a German label ("{pl}"): the first
\* and the third are retained in that order.
C2_Witness ==
  /\ AfterDropNa
  /\ Len(nouns) = 3
  /\ nouns[2].de_gender = NaN
  /\ nouns[2].fr_gender # NaN
  /\ Len(nouns_gendered) = 2
  /\ nouns_gendered[1].de_gender = <<"n">>
  /\ nouns_gendered[2].de_gender = <<"f">>

\* C3: nouns holds exactly the rows of defr whose category is "noun", in
\* their order in defr.
C3_FilterIsNounSubsequence ==
  AfterFilter =>
    IsSubsequenceAt(nouns, defr, {k \in DOMAIN defr : defr[k].cat = Noun})

\* A noun, a verb and a noun: the filter keeps the two nouns in order.
C3_Witness ==
  /\ AfterFilter
  /\ Len(defr) = 3
  /\ defr[2].cat = Verb
  /\ Len(nouns) = 2
  /\ nouns[1].de # nouns[2].de
  /\ nouns[1].de = defr[1].de
  /\ nouns[2].de = defr[3].de

\* The number of rows with row label a and column label b.
PairCount(rowcol, a, b) ==
  Cardinality({k \in DOMAIN nouns_gendered :
                 /\ nouns_gendered[k][rowcol] = a
                 /\ nouns_gendered[k].fr_gender = b})

\* C4: cell (i, j) of cm, and of cm2, is the number of rows whose German
\* label (grouped, for cm2) is the i-th declared label and whose French label
\* is the j-th; and the table of [m,f,m,m] against [m,f,m,f] over (m, f) is
\* [[2,1],[0,1]].
C4_CellCountsPairs ==
  /\ AfterCrossTab =>
       \A i, j \in 1..3 :
         cm[i][j] = PairCount("de_gender", Labels3[i], Labels3[j])
  /\ AfterCrossTab2 =>
       \A i, j \in 1..2 :
         cm2[i][j] = PairCount("de_gender_grouped", Labels2[i], Labels2[j])
  /\ ConfusionMatrix(<< <<"m">>, <<"f">>, <<"m">>, <<"m">> >>,
                     << <<"m">>, <<"f">>, <<"m">>, <<"f">> >>, Labels2)
       = << <<2, 1>>, <<0, 1>> >>

\* A table with an off-diagonal count on one side only.
C4_Witness ==
  /\ AfterCrossTab2
  /\ cm = << <<1, 0, 0>>, <<0, 1, 0>>, <<0, 1, 0>> >>
  /\ cm2 = << <<1, 1>>, <<0, 1>> >>

\* C5: every cell of cm and of cm2 is a non-negative integer, and each
\* table sums to the number of rows of nouns_gendered.
C5_CellsSumToRows ==
  /\ AfterCrossTab =>
       /\ \A i, j \in 1..3 : cm[i][j] \in Nat
       /\ MatrixSum(cm) = Len(nouns_gendered)
  /\ AfterCrossTab2 =>
       /\ \A i, j \in 1..2 : cm2[i][j] \in Nat
       /\ MatrixSum(cm2) = Len(nouns_gendered)

\* Three retained rows, one of them neutral in German.
C5_Witness ==
  /\ AfterCrossTab2
  /\ Len(nouns_gendered) = 3
  /\ \E k \in DOMAIN nouns_gendered : nouns_gendered[k].de_gender = <<"n">>
  /\ MatrixSum(cm2) = 3

C7_RatioInUnitInterval ==
  AfterRatio =>
    /\ ratio # NaN
    /\ 0 <= ratio[1]
    /\ ratio[1] <= ratio[2]
    /\ ratio[1] = ratio[2] <=>
         \A k \in DOMAIN nouns_gendered :
           nouns_gendered[k].de_gender_grouped = nouns_gendered[k].fr_gender

\* C8: the column of cm for the French label n is zero in every row, and
\* the slice cm[:, :2] handed to the tests holds all of cm's counts.
C8_RightmostColumnEmpty ==
  /\ AfterCrossTab => \A i \in 1..3 : cm[i][3] = 0
  /\ AfterChi2 =>
       /\ MatrixSum(chi2_arg) = MatrixSum(cm)
       /\ MatrixSum(chi2_arg) = Len(nouns_gendered)

\* The tests have run on a table with a count in each German row.
C8_Witness ==
  /\ pc = "done"
  /\ \A i \in 1..3 : SumSeq(cm[i]) = 1
  /\ MatrixSum(chi2_arg) = 3

\* C9: the Grouper is defined on each of m, f, n, and grouping a grouped
\* label changes nothing, on the alphabet and on every row of the table.
C9_GrouperTotalIdempotent ==
  /\ \A x \in DeLetters :
       /\ Grouper(<<x>>) # NaN
       /\ Grouper(Grouper(<<x>>)) = Grouper(<<x>>)
  /\ AfterGroup =>
       \A k \in DOMAIN nouns_gendered :
         LET g == nouns_gendered[k].de_gender_grouped
         IN  g # NaN /\ Grouper(g) = g

\* A neutral and a masculine German noun, both grouped to m.
C9_Witness ==
  /\ AfterGroup
  /\ \E k \in DOMAIN nouns_gendered :
       /\ nouns_gendered[k].de_gender = <<"n">>
       /\ nouns_gendered[k].de_gender_grouped = <<"m">>
  /\ \E k \in DOMAIN nouns_gendered :
       /\ nouns_gendered[k].de_gender = <<"m">>
       /\ nouns_gendered[k].de_gender_grouped = <<"m">>

\* C10: every row of nouns_gendered has a German label among m, f, n and a
\* French label among m, f, and once grouped a grouped label among m, f.
C10_LabelsInAlphabets ==
  /\ AfterDropNa =>
       \A k \in DOMAIN nouns_gendered :
         /\ nouns_gendered[k].de_gender \in {<<"m">>, <<"f">>, <<"n">>}
         /\ nouns_gendered[k].fr_gender \in {<<"m">>, <<"f">>}
  /\ AfterGroup =>
       \A k \in DOMAIN nouns_gendered :
         nouns_gendered[k].de_gender_grouped \in {<<"m">>, <<"f">>}

\* All three German labels and both French labels in one grouped table.
C10_Witness ==
  /\ AfterGroup
  /\ {nouns_gendered[k].de_gender : k \in DOMAIN nouns_gendered}
       = {<<"m">>, <<"f">>, <<"n">>}
  /\ {nouns_gendered[k].fr_gender : k \in DOMAIN nouns_gendered}
       = {<<"m">>, <<"f">>}

====
